---- MODULE Spec2Model ----
(***************************************************************************)
(* mobileDetectOrientationChange (jquery.orientation-change.js).           *)
(*                                                                         *)
(* The plugin's state is the list of listener closures that init()         *)
(* registers on each element (each closure owns one `orientation`          *)
(* variable); its environment is each element's `orientation` angle,       *)
(* innerWidth and innerHeight, and the platform's capabilities             *)
(* ('onorientationchange' in element, 'onresize' in element, whether       *)
(* element.orientation is defined).  Elements are window-like objects:     *)
(* the global `window` and a second one, "frame".                          *)
(***************************************************************************)
EXTENDS Integers, Sequences, FiniteSets

\* ---- bounds of the model ------------------------------------------------
\* innerWidth / innerHeight range over 1..MaxDim
MaxDim == 2
\* at most MaxAttach listener closures are registered in total
MaxAttach == 2
\* how deep a handler's own dispatch of the native signal may nest
MaxDepth == 1
\* innerWidth / innerHeight of the specification of isLandscape: 1..QMaxDim
QMaxDim == 4

\* ---- program constants --------------------------------------------------
\* var ORIENTATION = {LANDSCAPE: 1, PORTRAIT: 2};
LANDSCAPE == 1
PORTRAIT == 2

Targets == {"window", "frame"}
\* the global object the resize handler reads its geometry from
Window == "window"
\* values of element.orientation on a platform that defines it
Angles == {0, 90}
QAngles == {0, 90, -90, 180}

\* jQuery collections the public functions are called on: non-empty
\* sequences of distinct elements
Collections ==
    {<<t>> : t \in Targets} \cup
    {<<s, t>> : <<s, t>> \in {p \in Targets \X Targets : p[1] # p[2]}}

\* turn.op names the operation that ran last, turn.coll its receiver (or the
\* element a signal was dispatched on); turn.again: a testOrientation call
\* that repeats the previous call; turn.after: for a signal that directly
\* follows a testOrientation call on its element, the event that call
\* announced
VARIABLES
    hasOC,        \* 'onorientationchange' in element
    hasResize,    \* 'onresize' in element
    hasAngle,     \* typeof(element.orientation) !== 'undefined'
    angle,        \* element.orientation of each element (read when hasAngle)
    innerWidth,   \* element.innerWidth
    innerHeight,  \* element.innerHeight
    listeners,    \* per element: the closures init() registered, in order
    turn,         \* the operation that ran last
    emitted,      \* the events the last operation dispatched, in order
    ret,          \* the value the last isLandscape() call returned
    lastSig,      \* the last native signal handled, and what isLandscape()
                  \* returned for its element then (no function called since)
    handlers,     \* per element: the handlers registered with landscape(fn),
                  \* portrait(fn) and orientationchanged(fn), in order
    single        \* history of the one attachment of SingleSpec: its element,
                  \* the orientation stored at attach time, and the
                  \* orientation event its detector emitted last

vars == <<hasOC, hasResize, hasAngle, angle, innerWidth, innerHeight,
          listeners, turn, emitted, ret, lastSig, handlers, single>>

\* what only the specifications of the handlers and of the single attachment
\* change
aux == <<handlers, single>>

env == <<hasOC, hasResize, hasAngle, angle, innerWidth, innerHeight>>

\* ---- the code -----------------------------------------------------------

\* typeof(element.orientation)
typeofOrientation(element) == IF hasAngle THEN "number" ELSE "undefined"

\* element.orientation == 0 (JavaScript's loose equality: undefined == 0 is
\* false, so element.orientation != 0 is true of an undefined orientation)
orientationIsZero(element) == hasAngle /\ angle[element] = 0

\* $.fn.isLandscape, on the collection `self`
isLandscapeGeq(self) ==
    LET element == self[1] IN
    IF typeofOrientation(element) # "undefined"
    THEN IF ~orientationIsZero(element) THEN TRUE ELSE FALSE
    ELSE innerWidth[element] >= innerHeight[element]

isLandscapePositive(self) ==
    LET element == self[1] IN
    IF typeofOrientation(element) # "undefined"
    THEN angle[element] > 0
    ELSE innerWidth[element] > innerHeight[element]

isLandscape(self) ==
    LET element == self[1] IN
    IF typeofOrientation(element) # "undefined"
    THEN IF ~orientationIsZero(element) THEN TRUE ELSE FALSE
    ELSE innerWidth[element] > innerHeight[element]

\* self.trigger({type: .., landscape: .., portrait: ..}): one dispatch per
\* element of the collection, in the collection's order
trigger(self, type, l, p) ==
    [i \in 1..Len(self) |->
        [target |-> self[i], type |-> type, landscape |-> l, portrait |-> p]]

\* function landscape(self)
landscapeSwapped(self) ==
    trigger(self, "orientationchanged", TRUE, FALSE) \o
    trigger(self, "landscape", TRUE, FALSE)

landscape(self) ==
    trigger(self, "landscape", TRUE, FALSE) \o
    trigger(self, "orientationchanged", TRUE, FALSE)

\* function portrait(self)
portraitBadPayload(self) ==
    trigger(self, "portrait", TRUE, FALSE) \o
    trigger(self, "orientationchanged", TRUE, FALSE)

portrait(self) ==
    trigger(self, "portrait", FALSE, TRUE) \o
    trigger(self, "orientationchanged", FALSE, TRUE)

\* the closure registered for 'orientationchange': what it dispatches and the
\* value of its `orientation` variable afterwards
orientationchangeHandlerNoFlip(element, orientation) ==
    IF orientationIsZero(element) /\ orientation = LANDSCAPE
    THEN [emit |-> portrait(<<element>>), orientation |-> LANDSCAPE]
    ELSE IF ~orientationIsZero(element) /\ orientation = PORTRAIT
    THEN [emit |-> landscape(<<element>>), orientation |-> LANDSCAPE]
    ELSE [emit |-> <<>>, orientation |-> orientation]

orientationchangeHandler(element, orientation) ==
    IF orientationIsZero(element) /\ orientation = LANDSCAPE
    THEN [emit |-> portrait(<<element>>), orientation |-> PORTRAIT]
    ELSE IF ~orientationIsZero(element) /\ orientation = PORTRAIT
    THEN [emit |-> landscape(<<element>>), orientation |-> LANDSCAPE]
    ELSE [emit |-> <<>>, orientation |-> orientation]

\* the closure registered for 'resize'; it reads window.innerWidth and
\* window.innerHeight, whatever element it is registered on
resizeHandlerOnWindow(element, orientation) ==
    IF innerWidth[Window] < innerHeight[Window] /\ orientation = LANDSCAPE
    THEN [emit |-> portrait(<<Window>>), orientation |-> PORTRAIT]
    ELSE IF innerWidth[Window] >= innerHeight[Window] /\ orientation = PORTRAIT
    THEN [emit |-> landscape(<<Window>>), orientation |-> LANDSCAPE]
    ELSE [emit |-> <<>>, orientation |-> orientation]

resizeHandlerStale(element, orientation) ==
    IF innerWidth[Window] < innerHeight[Window] /\ orientation = LANDSCAPE
    THEN [emit |-> portrait(<<element>>), orientation |-> orientation]
    ELSE IF innerWidth[Window] >= innerHeight[Window] /\ orientation = PORTRAIT
    THEN [emit |-> landscape(<<element>>), orientation |-> LANDSCAPE]
    ELSE [emit |-> <<>>, orientation |-> orientation]

resizeHandler(element, orientation) ==
    IF innerWidth[Window] < innerHeight[Window] /\ orientation = LANDSCAPE
    THEN [emit |-> portrait(<<element>>), orientation |-> PORTRAIT]
    ELSE IF innerWidth[Window] >= innerHeight[Window] /\ orientation = PORTRAIT
    THEN [emit |-> landscape(<<element>>), orientation |-> LANDSCAPE]
    ELSE [emit |-> <<>>, orientation |-> orientation]

\* one registered closure run for a native event of type `type`
runListener(element, type, l) ==
    IF l.kind # type THEN [emit |-> <<>>, orientation |-> l.orientation]
    ELSE IF type = "orientationchange"
    THEN orientationchangeHandler(element, l.orientation)
    ELSE resizeHandler(element, l.orientation)

\* the native event dispatched on `element`: its listeners run in the order
\* they were registered
RECURSIVE dispatchFrom(_, _, _, _)
dispatchFrom(element, type, ls, i) ==
    IF i > Len(ls) THEN <<>>
    ELSE runListener(element, type, ls[i]).emit \o
         dispatchFrom(element, type, ls, i + 1)

dispatched(element, type) == dispatchFrom(element, type, listeners[element], 1)

listenersAfter(element, type) ==
    [i \in 1..Len(listeners[element]) |->
        [kind |-> listeners[element][i].kind,
         orientation |->
            runListener(element, type, listeners[element][i]).orientation]]

\* function init(idx, element): the listeners of `element` afterwards
initWrongState(element) ==
    LET orientation == IF isLandscape(<<element>>) THEN PORTRAIT ELSE LANDSCAPE
    IN  IF hasOC
        THEN Append(listeners[element],
                    [kind |-> "orientationchange", orientation |-> orientation])
        ELSE IF hasResize
        THEN Append(listeners[element],
                    [kind |-> "resize", orientation |-> orientation])
        ELSE listeners[element]

initPreferResize(element) ==
    LET orientation == IF isLandscape(<<element>>) THEN LANDSCAPE ELSE PORTRAIT
    IN  IF hasResize
        THEN Append(listeners[element],
                    [kind |-> "resize", orientation |-> orientation])
        ELSE IF hasOC
        THEN Append(listeners[element],
                    [kind |-> "orientationchange", orientation |-> orientation])
        ELSE listeners[element]

init(element) ==
    LET orientation == IF isLandscape(<<element>>) THEN LANDSCAPE ELSE PORTRAIT
    IN  IF hasOC
        THEN Append(listeners[element],
                    [kind |-> "orientationchange", orientation |-> orientation])
        ELSE IF hasResize
        THEN Append(listeners[element],
                    [kind |-> "resize", orientation |-> orientation])
        ELSE listeners[element]

\* $.fn.testOrientation: what it dispatches
testOrientationEmitOnChange(self) ==
    IF turn.op = "test" /\ turn.coll = self THEN <<>>
    ELSE IF isLandscape(self) THEN landscape(self) ELSE portrait(self)

testOrientationEmit(self) ==
    IF isLandscape(self) THEN landscape(self) ELSE portrait(self)

\* ---- helpers of the model ----------------------------------------------
Range(s) == {s[i] : i \in 1..Len(s)}

RECURSIVE SumLen(_)
SumLen(S) ==
    IF S = {} THEN 0
    ELSE LET t == CHOOSE x \in S : TRUE
         IN  Len(listeners[t]) + SumLen(S \ {t})

\* the Orientation Query of one element
Query(t) == IF isLandscape(<<t>>) THEN LANDSCAPE ELSE PORTRAIT

NoSig == [target |-> "none", query |-> 0]

NoSingle == [target |-> "none", attached |-> 0, last |-> "none"]

\* ---- the state machine ---------------------------------------------------
Init ==
    /\ hasOC \in BOOLEAN
    /\ hasResize \in BOOLEAN
    /\ hasAngle \in BOOLEAN
    /\ angle \in [Targets -> IF hasAngle THEN Angles ELSE {0}]
    /\ innerWidth \in [Targets -> 1..MaxDim]
    /\ innerHeight \in [Targets -> 1..MaxDim]
    /\ listeners = [t \in Targets |-> <<>>]
    /\ turn = [op |-> "load", coll |-> <<>>, again |-> FALSE,
                after |-> "none"]
    /\ emitted = <<>>
    /\ ret = FALSE
    /\ lastSig = NoSig
    /\ handlers = [t \in Targets |-> <<>>]
    /\ single = NoSingle

\* the device is rotated: element.orientation changes
SetAngle(t, a) ==
    /\ hasAngle
    /\ a # angle[t]
    /\ angle' = [angle EXCEPT ![t] = a]
    /\ turn' = [op |-> "env", coll |-> <<>>, again |-> FALSE,
                after |-> "none"]
    /\ emitted' = <<>>
    /\ ret' = FALSE
    /\ UNCHANGED <<hasOC, hasResize, hasAngle, innerWidth, innerHeight,
                   listeners, lastSig, aux>>

\* the viewport changes size
SetGeometry(t, w, h) ==
    /\ <<w, h>> # <<innerWidth[t], innerHeight[t]>>
    /\ innerWidth' = [innerWidth EXCEPT ![t] = w]
    /\ innerHeight' = [innerHeight EXCEPT ![t] = h]
    /\ turn' = [op |-> "env", coll |-> <<>>, again |-> FALSE,
                after |-> "none"]
    /\ emitted' = <<>>
    /\ ret' = FALSE
    /\ UNCHANGED <<hasOC, hasResize, hasAngle, angle, listeners, lastSig, aux>>

\* what detectOrientationChange, testOrientation and the three subscription
\* functions return: `return this` / `return self`
detectOrientationChangeReturn(self) == self

testOrientationReturn(self) == self

\* $(..).detectOrientationChange(): $.each(this, init)
Attach(self) ==
    /\ SumLen(Targets) + Len(self) <= MaxAttach
    /\ listeners' = [t \in Targets |->
                        IF t \in Range(self) THEN init(t) ELSE listeners[t]]
    /\ turn' = [op |-> "attach", coll |-> self, again |-> FALSE,
                after |-> "none"]
    /\ emitted' = <<>>
    /\ lastSig' = NoSig
    /\ ret' = detectOrientationChangeReturn(self)
    /\ UNCHANGED <<env, handlers>>

DetectOrientationChange(self) == Attach(self) /\ UNCHANGED single

\* $(..).testOrientation()
TestOrientationStoring(self) ==
    /\ emitted' = testOrientationEmit(self)
    /\ listeners' = [t \in Targets |->
            IF t \in Range(self)
            THEN [i \in 1..Len(listeners[t]) |->
                    [kind |-> listeners[t][i].kind,
                     orientation |-> IF isLandscape(self) THEN LANDSCAPE
                                     ELSE PORTRAIT]]
            ELSE listeners[t]]
    /\ turn' = [op |-> "test", coll |-> self,
                again |-> (turn.op = "test" /\ turn.coll = self),
                after |-> "none"]
    /\ lastSig' = NoSig
    /\ ret' = testOrientationReturn(self)
    /\ UNCHANGED <<env, aux>>

TestOrientation(self) ==
    /\ emitted' = testOrientationEmit(self)
    /\ turn' = [op |-> "test", coll |-> self,
                again |-> (turn.op = "test" /\ turn.coll = self),
                after |-> "none"]
    /\ lastSig' = NoSig
    /\ ret' = testOrientationReturn(self)
    /\ UNCHANGED <<env, listeners, aux>>

\* a closure registered on element t listens for events of type `type`
Handled(t, type) == \E i \in 1..Len(listeners[t]) : listeners[t][i].kind = type

\* the browser dispatches a native event on element t
Dispatch(t, type) ==
    /\ emitted' = dispatched(t, type)
    /\ listeners' = [listeners EXCEPT ![t] = listenersAfter(t, type)]
    /\ turn' = [op |-> type, coll |-> <<t>>, again |-> FALSE,
                after |-> IF turn.op = "test" /\ t \in Range(turn.coll)
                          THEN emitted[1].type ELSE "none"]
    /\ lastSig' = IF Handled(t, type) THEN [target |-> t, query |-> Query(t)]
                  ELSE lastSig
    /\ ret' = FALSE
    /\ UNCHANGED <<env, handlers>>

Signal(t, type) == Dispatch(t, type) /\ UNCHANGED single

OrientationChangeSignal(t) == hasOC /\ Signal(t, "orientationchange")

ResizeSignal(t) == hasResize /\ Signal(t, "resize")

Next ==
    \/ \E t \in Targets, a \in Angles : SetAngle(t, a)
    \/ \E t \in Targets, w, h \in 1..MaxDim : SetGeometry(t, w, h)
    \/ \E self \in Collections : DetectOrientationChange(self)
    \/ \E self \in Collections : TestOrientation(self)
    \/ \E t \in Targets : OrientationChangeSignal(t)
    \/ \E t \in Targets : ResizeSignal(t)

Spec == Init /\ [][Next]_vars

\* ---- isLandscape as a function of its inputs ----------------------------
QInit ==
    /\ hasOC = FALSE
    /\ hasResize = FALSE
    /\ hasAngle \in BOOLEAN
    /\ angle \in [Targets -> IF hasAngle THEN QAngles ELSE {0}]
    /\ innerWidth \in [Targets -> 1..QMaxDim]
    /\ innerHeight \in [Targets -> 1..QMaxDim]
    /\ listeners = [t \in Targets |-> <<>>]
    /\ turn = [op |-> "load", coll |-> <<>>, again |-> FALSE,
                after |-> "none"]
    /\ emitted = <<>>
    /\ ret = FALSE
    /\ lastSig = NoSig
    /\ handlers = [t \in Targets |-> <<>>]
    /\ single = NoSingle

\* $(..).isLandscape()
IsLandscapeCall(self) ==
    /\ ret' = isLandscape(self)
    /\ turn' = [op |-> "isLandscape", coll |-> self, again |-> FALSE,
                after |-> "none"]
    /\ UNCHANGED <<env, listeners, emitted, lastSig, aux>>

QNext == \E self \in Collections : IsLandscapeCall(self)

QuerySpec == QInit /\ [][QNext]_vars

\* ---- the subscription functions and chaining ----------------------------
\* self.on(type, fn): fn is registered on every element of the collection
on(self, type, fn) ==
    [t \in Targets |->
        IF t \in Range(self)
        THEN Append(handlers[t], [type |-> type, fn |-> fn])
        ELSE handlers[t]]

\* a subscription function returning only its first element ($(this[0]))
subscribeReturnFirst(self) == <<self[1]>>

\* `return self` of $.fn.landscape, $.fn.portrait, $.fn.orientationchanged
subscribeReturn(self) == self

Subscribe(self, type, fn) ==
    /\ handlers' = on(self, type, fn)
    /\ ret' = subscribeReturn(self)
    /\ turn' = [op |-> type, coll |-> self, again |-> FALSE,
                after |-> "none"]
    /\ emitted' = <<>>
    /\ lastSig' = NoSig
    /\ UNCHANGED <<env, listeners, single>>

SubscribeLandscape(self, fn) == Subscribe(self, "landscape", fn)

SubscribePortrait(self, fn) == Subscribe(self, "portrait", fn)

SubscribeOrientationchanged(self, fn) ==
    Subscribe(self, "orientationchanged", fn)

\* the handlers jQuery calls for a dispatched event: those registered on its
\* element for its type, in registration order
called(e) == SelectSeq(handlers[e.target], LAMBDA h : h.type = e.type)

\* $(..).detectOrientationChange().landscape(f).portrait(g)
\*      [.orientationchanged(h)].testOrientation()
\* every call is made on what the call before it returned
ChainDetectOrientationChange ==
    /\ turn.op = "load"
    /\ \E self \in Collections : DetectOrientationChange(self)

ChainLandscape == turn.op = "attach" /\ SubscribeLandscape(ret, "f")

ChainPortrait == turn.op = "landscape" /\ SubscribePortrait(ret, "g")

ChainOrientationchanged ==
    turn.op = "portrait" /\ SubscribeOrientationchanged(ret, "h")

ChainTestOrientation ==
    /\ turn.op \in {"portrait", "orientationchanged"}
    /\ TestOrientation(ret)

ChainNext ==
    \/ ChainDetectOrientationChange
    \/ ChainLandscape
    \/ ChainPortrait
    \/ ChainOrientationchanged
    \/ ChainTestOrientation

ChainSpec == Init /\ [][ChainNext]_vars

\* ---- handlers that dispatch the native signal again ----------------------
\* A handler "resignal" calls $(element).trigger(<the native event>) from
\* inside the semantic event it is registered for, at most MaxDepth deep.
\* trigger() is synchronous: the nested dispatch runs the closures of the
\* element before the emitting closure reaches its assignment to
\* `orientation`.
Resignals(t, e) ==
    \E i \in 1..Len(handlers[t]) :
        handlers[t][i].type = e.type /\ handlers[t][i].fn = "resignal"

RECURSIVE runFrom(_, _, _, _, _), runClosure(_, _, _, _, _),
          fire(_, _, _, _, _)

\* self.trigger(e) inside a closure: the handlers of e run, with the
\* closures' variables as they are now (ls)
fire(t, type, e, ls, d) ==
    IF Resignals(t, e) /\ d < MaxDepth
    THEN LET nested == runFrom(t, type, ls, 1, d + 1)
         IN [ls |-> nested.ls, emit |-> <<e>> \o nested.emit]
    ELSE [ls |-> ls, emit |-> <<e>>]

\* the closure ls[i] handles the native event: it decides on its stored
\* orientation, triggers its two events, and assigns after they returned
runClosure(t, type, ls, i, d) ==
    LET r == runListener(t, type, ls[i])
    IN IF r.emit = <<>>
       THEN [ls |-> ls, emit |-> <<>>]
       ELSE LET a == fire(t, type, r.emit[1], ls, d)
                b == fire(t, type, r.emit[2], a.ls, d)
            IN [ls |-> [b.ls EXCEPT ![i].orientation = r.orientation],
                emit |-> a.emit \o b.emit]

\* the closures of element t from the i-th on handle the native event
runFrom(t, type, ls, i, d) ==
    IF i > Len(ls)
    THEN [ls |-> ls, emit |-> <<>>]
    ELSE LET r == runClosure(t, type, ls, i, d)
             rest == runFrom(t, type, r.ls, i + 1, d)
         IN [ls |-> rest.ls, emit |-> r.emit \o rest.emit]

\* one element is attached, one resignal handler is registered
ReentrantAttach(t) ==
    /\ SumLen(Targets) = 0
    /\ DetectOrientationChange(<<t>>)

ReentrantSubscribe(t, type) ==
    /\ \A u \in Targets : handlers[u] = <<>>
    /\ Subscribe(<<t>>, type, "resignal")

ReentrantSignal(t, type) ==
    /\ LET r == runFrom(t, type, listeners[t], 1, 0)
       IN /\ emitted' = r.emit
          /\ listeners' = [listeners EXCEPT ![t] = r.ls]
    /\ turn' = [op |-> type, coll |-> <<t>>, again |-> FALSE,
                after |-> "none"]
    /\ lastSig' = NoSig
    /\ ret' = FALSE
    /\ UNCHANGED <<env, aux>>

ReentrantOrientationChangeSignal(t) ==
    hasOC /\ ReentrantSignal(t, "orientationchange")

ReentrantResizeSignal(t) == hasResize /\ ReentrantSignal(t, "resize")

ReentrantNext ==
    \/ \E t \in Targets, a \in Angles : SetAngle(t, a)
    \/ \E t \in Targets, w, h \in 1..MaxDim : SetGeometry(t, w, h)
    \/ \E t \in Targets : ReentrantAttach(t)
    \/ \E t \in Targets,
          type \in {"landscape", "portrait", "orientationchanged"} :
            ReentrantSubscribe(t, type)
    \/ \E t \in Targets : ReentrantOrientationChangeSignal(t)
    \/ \E t \in Targets : ReentrantResizeSignal(t)

ReentrantSpec == Init /\ [][ReentrantNext]_vars

\* ---- one attachment, with the history of its emissions -----------------
\* detectOrientationChange called once, on one element
SingleAttach(t) ==
    /\ single = NoSingle
    /\ SumLen(Targets) = 0
    /\ Attach(<<t>>)
    /\ single' = [target |-> t, attached |-> Query(t), last |-> "none"]

SingleSignal(t, type) ==
    /\ Dispatch(t, type)
    /\ single' = IF single.target = t /\ dispatched(t, type) # <<>>
                 THEN [single EXCEPT !.last = dispatched(t, type)[1].type]
                 ELSE single

SingleOrientationChangeSignal(t) ==
    hasOC /\ SingleSignal(t, "orientationchange")

SingleResizeSignal(t) == hasResize /\ SingleSignal(t, "resize")

SingleNext ==
    \/ \E t \in Targets, a \in Angles : SetAngle(t, a)
    \/ \E t \in Targets, w, h \in 1..MaxDim : SetGeometry(t, w, h)
    \/ \E t \in Targets : SingleAttach(t)
    \/ \E self \in Collections : TestOrientation(self)
    \/ \E t \in Targets : SingleOrientationChangeSignal(t)
    \/ \E t \in Targets : SingleResizeSignal(t)

SingleSpec == Init /\ [][SingleNext]_vars


\* ---- the claims -----------------------------------------------------------
IsSignal(op) == op \in {"orientationchange", "resize"}

\* the events of the last operation that were dispatched on element t
OnTarget(t) == SelectSeq(emitted, LAMBDA e : e.target = t)

SamePayload(a, b) == a.landscape = b.landscape /\ a.portrait = b.portrait

\* s is a sequence of pairs: an orientation event, then orientationchanged
\* with the same payload
IsPairs(s) ==
    /\ Len(s) % 2 = 0
    /\ \A i \in 1..Len(s) :
        IF i % 2 = 1
        THEN /\ s[i].type \in {"landscape", "portrait"}
             /\ s[i + 1].type = "orientationchanged"
             /\ SamePayload(s[i], s[i + 1])
        ELSE s[i].type = "orientationchanged"

\* C1: on every element, whatever operation emitted, the events dispatched on
\* it are pairs: `landscape` or `portrait` first, `orientationchanged` directly
\* after it with the same payload, and no `orientationchanged` without its
\* orientation event directly before it.
C1_PairOrder == \A t \in Targets : IsPairs(OnTarget(t))

\* C1 witness: a native signal made the detector emit a pair
C1_Witness ==
    /\ IsSignal(turn.op)
    /\ Len(emitted) = 2
    /\ emitted[2].type = "orientationchanged"

\* C2 (as claimed): when two consecutive signals are handled by the detector
\* of an element while isLandscape() returns the same for it, the second
\* emits nothing.
C2_NoEmissionOnSameQuery ==
    [][(/\ IsSignal(turn'.op)
        /\ Handled(turn'.coll[1], turn'.op)
        /\ lastSig.target = lastSig'.target
        /\ lastSig.query = lastSig'.query) => emitted' = <<>>]_vars

\* C3: every call of testOrientation dispatches, on each element of its
\* collection, exactly one orientation event followed by exactly one
\* orientationchanged, and nothing on any other element, also when the call
\* directly repeats the previous one.
C3_TestFiresOnePair ==
    turn.op = "test" =>
        \A t \in Targets :
            IF t \in Range(turn.coll)
            THEN /\ Len(OnTarget(t)) = 2
                 /\ OnTarget(t)[1].type \in {"landscape", "portrait"}
                 /\ OnTarget(t)[2].type = "orientationchanged"
            ELSE OnTarget(t) = <<>>

\* C3 witness: a repeated call, on an element whose detector stores the
\* other orientation, has fired its pair
C3_Witness ==
    /\ turn.op = "test"
    /\ turn.again
    /\ Len(emitted) = 2
    /\ LET t == turn.coll[1] IN
        /\ Len(listeners[t]) = 1
        /\ (listeners[t][1].orientation = LANDSCAPE) # emitted[1].landscape

\* C4: detectOrientationChange dispatches nothing, nor does anything before
\* the first signal or testOrientation call; for each element of its
\* collection it registers one closure (when the platform has a signal) whose
\* stored state is the element's Orientation Query.
C4_AttachEmitsNothing ==
    /\ ~(IsSignal(turn.op) \/ turn.op = "test") => emitted = <<>>
    /\ turn.op = "attach" =>
        \A t \in Range(turn.coll) :
            (hasOC \/ hasResize) =>
                /\ Len(listeners[t]) >= 1
                /\ listeners[t][Len(listeners[t])].orientation = Query(t)

\* C4 witness: a collection of a landscape and a portrait element was attached
C4_Witness ==
    /\ turn.op = "attach"
    /\ Len(turn.coll) = 2
    /\ Len(listeners[turn.coll[1]]) = 1
    /\ Len(listeners[turn.coll[2]]) = 1
    /\ listeners[turn.coll[1]][1].orientation = LANDSCAPE
    /\ listeners[turn.coll[2]][1].orientation = PORTRAIT

\* C5: in every dispatched event landscape and portrait are complements; a
\* `landscape` event carries landscape: true, a `portrait` event portrait:
\* true, and an orientationchanged carries the payload of the orientation
\* event of its pair.
C5_PayloadComplement ==
    /\ \A k \in 1..Len(emitted) :
        /\ emitted[k].landscape = ~emitted[k].portrait
        /\ emitted[k].type = "landscape" => emitted[k].landscape
        /\ emitted[k].type = "portrait" => emitted[k].portrait
    /\ \A t \in Targets : \A i \in 1..Len(OnTarget(t)) :
        (OnTarget(t)[i].type = "orientationchanged" /\ i > 1) =>
            /\ OnTarget(t)[i].landscape = (OnTarget(t)[i - 1].type = "landscape")
            /\ OnTarget(t)[i].portrait = (OnTarget(t)[i - 1].type = "portrait")

\* C5 witness: the detector emitted a portrait pair on the orientationchange
\* path
C5_Witness ==
    /\ turn.op = "orientationchange"
    /\ Len(emitted) = 2
    /\ emitted[1].type = "portrait"
    /\ emitted[2].portrait

\* the orientation an angle stands for
AngleClass(t) == IF angle[t] = 0 THEN PORTRAIT ELSE LANDSCAPE

EventName(o) == IF o = LANDSCAPE THEN "landscape" ELSE "portrait"

\* C6: with an angle and the orientationchange signal, each attached detector
\* whose stored state differs from the angle's class when the signal is
\* handled emits exactly one pair for the new orientation and flips its
\* stored state (a detector that agrees emits nothing and keeps its state).
C6_AngleSignalFlips ==
    [][(turn'.op = "orientationchange" /\ hasAngle) =>
        LET t == turn'.coll[1]
            differs == {i \in 1..Len(listeners[t]) :
                            listeners[t][i].orientation # AngleClass(t)}
        IN  /\ Len(listeners'[t]) = Len(listeners[t])
            /\ \A i \in 1..Len(listeners[t]) :
                    listeners'[t][i].orientation = AngleClass(t)
            /\ Len(emitted') = 2 * Cardinality(differs)
            /\ \A k \in 1..Len(emitted') :
                /\ emitted'[k].target = t
                /\ emitted'[k].landscape = (AngleClass(t) = LANDSCAPE)
                /\ emitted'[k].portrait = (AngleClass(t) = PORTRAIT)
                /\ emitted'[k].type = IF k % 2 = 1 THEN EventName(AngleClass(t))
                                      ELSE "orientationchanged"]_vars

\* C6 witness: a signal at a non-zero angle moved a detector to Landscape and
\* emitted landscape, orientationchanged
C6_Witness ==
    /\ turn.op = "orientationchange"
    /\ hasAngle
    /\ angle[turn.coll[1]] = 90
    /\ Len(listeners[turn.coll[1]]) = 1
    /\ listeners[turn.coll[1]][1].orientation = LANDSCAPE
    /\ Len(emitted) = 2
    /\ emitted[1].type = "landscape"
    /\ emitted[2].type = "orientationchanged"

\* C7 (as claimed): the orientation event testOrientation dispatches on an
\* element is the one isLandscape() gives for that element.
C7_TestMatchesEachTarget ==
    turn.op = "test" =>
        \A k \in 1..Len(emitted) :
            emitted[k].type \in {"landscape", "portrait"} =>
                (emitted[k].type = "landscape") = isLandscape(<<emitted[k].target>>)

\* C8: with an orientation angle, isLandscape() is false at angle 0 and true
\* at every other angle, whatever the width and height.
C8_AngleDecides ==
    (turn.op = "isLandscape" /\ hasAngle) =>
        ret = (angle[turn.coll[1]] # 0)

\* C8 witness: a negative angle on an element that is taller than wide
C8_Witness ==
    /\ turn.op = "isLandscape"
    /\ hasAngle
    /\ angle[turn.coll[1]] = -90
    /\ innerWidth[turn.coll[1]] < innerHeight[turn.coll[1]]
    /\ ret

\* C9: without an orientation angle, isLandscape() is true exactly when
\* innerWidth > innerHeight; a square element is Portrait.
C9_GeometryDecides ==
    (turn.op = "isLandscape" /\ ~hasAngle) =>
        ret = (innerWidth[turn.coll[1]] > innerHeight[turn.coll[1]])

\* C9 witness: a square element without an angle
C9_Witness ==
    /\ turn.op = "isLandscape"
    /\ ~hasAngle
    /\ innerWidth[turn.coll[1]] = innerHeight[turn.coll[1]]
    /\ ~ret

\* C10 (as claimed): on the resize fallback, a resize handled while the
\* element's width equals its height never emits `landscape` and never moves
\* a stored state from Portrait to Landscape.
C10_ResizeTieIsPortrait ==
    [][(/\ turn'.op = "resize"
        /\ ~hasOC
        /\ innerWidth[turn'.coll[1]] = innerHeight[turn'.coll[1]]) =>
        LET t == turn'.coll[1] IN
        /\ \A k \in 1..Len(emitted') : emitted'[k].type # "landscape"
        /\ \A i \in 1..Len(listeners[t]) :
            ~(/\ listeners[t][i].orientation = PORTRAIT
              /\ listeners'[t][i].orientation = LANDSCAPE)]_vars

\* C11 (as claimed): attaching again changes nothing: whatever the number of
\* detectOrientationChange calls on an element, a native signal emits on it
\* what the closure of the first call alone emits.
C11_AttachIdempotent ==
    [][(IsSignal(turn'.op) /\ Len(listeners[turn'.coll[1]]) >= 1) =>
        emitted' = runListener(turn'.coll[1], turn'.op,
                               listeners[turn'.coll[1]][1]).emit]_vars

\* C13 (as claimed): after a native signal was handled on an element, the
\* stored state of each closure that handled it is the element's Orientation
\* Query.
C13_StoredIsQueryAfterSignal ==
    IsSignal(turn.op) =>
        LET t == turn.coll[1] IN
        \A i \in 1..Len(listeners[t]) :
            listeners[t][i].kind = turn.op =>
                listeners[t][i].orientation = Query(t)

\* the orientation a payload announces
PayloadOrientation(e) == IF e.landscape THEN LANDSCAPE ELSE PORTRAIT

\* C15 (as claimed): the stored state of every detector of an element agrees
\* with the payload most recently emitted on that element, by the detector or
\* by testOrientation (here: called on that element alone).
C15_StoredAgreesWithLastPayload ==
    \A t \in Targets :
        (OnTarget(t) # <<>> /\ turn.coll = <<t>>) =>
            \A i \in 1..Len(listeners[t]) :
                listeners[t][i].orientation =
                    PayloadOrientation(OnTarget(t)[Len(OnTarget(t))])

\* C15 (amended): a detector's stored state changes only in a native signal
\* on its element, exactly when that detector emits a pair, and then to the
\* orientation of the pair: the stored state agrees with the payload the
\* detector itself emitted last.  Payloads of testOrientation are not
\* tracked.
C15_StoredFollowsOwnEmission ==
    [][\A t \in Targets :
        LET changed == {i \in 1..Len(listeners[t]) :
                            listeners'[t][i].orientation #
                                listeners[t][i].orientation}
            det == IsSignal(turn'.op) /\ turn'.coll[1] = t
        IN  /\ changed # {} => det
            /\ det =>
                /\ Len(emitted') = 2 * Cardinality(changed)
                /\ \A k \in 1..Len(emitted') : \A i \in changed :
                    PayloadOrientation(emitted'[k]) =
                        listeners'[t][i].orientation]_vars

\* C15 witness: the resize detector of an element emitted portrait and stores
\* Portrait
C15_Witness ==
    /\ turn.op = "resize"
    /\ Len(emitted) = 2
    /\ emitted[2].portrait
    /\ Len(listeners[turn.coll[1]]) = 1
    /\ listeners[turn.coll[1]][1].orientation = PORTRAIT

\* C17: every closure listens to one signal, chosen when it is attached:
\* orientationchange when the element supports it, otherwise resize; each
\* detectOrientationChange registers exactly one closure per element of its
\* collection; on an element that supports both signals a resize signal
\* emits nothing and changes no stored state.
C17_OneSignalSource ==
    [][/\ \A t \in Targets : \A i \in 1..Len(listeners'[t]) :
            /\ hasOC \/ hasResize
            /\ listeners'[t][i].kind =
                    IF hasOC THEN "orientationchange" ELSE "resize"
       /\ turn'.op = "attach" =>
            \A t \in Targets :
                /\ Len(listeners'[t]) = Len(listeners[t]) +
                        (IF t \in Range(turn'.coll) /\ (hasOC \/ hasResize)
                         THEN 1 ELSE 0)
                /\ \A i \in 1..Len(listeners[t]) :
                        listeners'[t][i] = listeners[t][i]
       /\ (turn'.op = "resize" /\ hasOC) =>
            /\ emitted' = <<>>
            /\ listeners' = listeners]_vars

\* C17 witness: with both signals supported, a resize signal on the window,
\* wider than tall, left its Portrait detector alone
C17_Witness ==
    /\ turn.op = "resize"
    /\ turn.coll = <<Window>>
    /\ hasOC
    /\ hasResize
    /\ Len(listeners[Window]) = 1
    /\ listeners[Window][1].orientation = PORTRAIT
    /\ innerWidth[Window] > innerHeight[Window]
    /\ emitted = <<>>

\* C18: a native signal handled on one element changes no stored state of
\* another element and dispatches no event on another element.
C18_TargetsIsolated ==
    [][IsSignal(turn'.op) =>
        LET t == turn'.coll[1] IN
        /\ \A u \in Targets \ {t} : listeners'[u] = listeners[u]
        /\ \A k \in 1..Len(emitted') : emitted'[k].target = t]_vars

\* C18 witness: both elements are attached; a signal on one flipped its
\* detector and emitted, the other element's detector kept the old state
C18_Witness ==
    /\ IsSignal(turn.op)
    /\ Len(emitted) = 2
    /\ \E u \in Targets \ {turn.coll[1]} :
        /\ Len(listeners[u]) = 1
        /\ Len(listeners[turn.coll[1]]) = 1
        /\ listeners[u][1].orientation # listeners[turn.coll[1]][1].orientation

\* C16: testOrientation leaves every detector's stored state as it was, so
\* the next native signal is decided by the state stored by the last attach
\* or detected transition (and may emit again what testOrientation just
\* announced).
C16_TestKeepsStoredState ==
    [][turn'.op = "test" => listeners' = listeners]_vars

\* C16 witness: a signal directly after testOrientation emitted again the
\* orientation event that call had announced on the element
C16_Witness ==
    /\ IsSignal(turn.op)
    /\ Len(emitted) = 2
    /\ turn.after = emitted[1].type

\* C19: the orientation events the detector of a single attachment emits
\* alternate: an emission is never the event it emitted last, it is one pair,
\* and the first emission is the opposite of the orientation stored at attach
\* time.  (testOrientation's events are not counted.)
C19_DetectorAlternates ==
    [][(IsSignal(turn'.op) /\ emitted' # <<>>) =>
        /\ Len(emitted') = 2
        /\ emitted'[1].type \in {"landscape", "portrait"}
        /\ emitted'[1].type # single.last
        /\ single.last = "none" =>
                PayloadOrientation(emitted'[1]) # single.attached]_vars

\* C19 witness: a detector attached in Landscape has emitted landscape, so
\* it went through portrait before
C19_Witness ==
    /\ IsSignal(turn.op)
    /\ single.attached = LANDSCAPE
    /\ single.last = "landscape"
    /\ Len(emitted) = 2
    /\ emitted[1].type = "landscape"

\* C12: detectOrientationChange, landscape(fn), portrait(fn),
\* orientationchanged(fn) and testOrientation return the collection they were
\* called on; after the chain detectOrientationChange().landscape(f)
\* .portrait(g).testOrientation() every element of the receiver, and no other,
\* has its detector attached and f and g registered, and testOrientation's
\* orientation event calls f when the receiver is landscape and g otherwise.
ChainOps ==
    {"attach", "landscape", "portrait", "orientationchanged", "test"}

C12_ChainReturnsReceiver ==
    /\ turn.op \in ChainOps => ret = turn.coll
    /\ turn.op = "test" =>
        \A t \in Targets :
            IF t \in Range(turn.coll)
            THEN /\ Len(listeners[t]) = IF hasOC \/ hasResize THEN 1 ELSE 0
                 /\ SubSeq(handlers[t], 1, 2) =
                        <<[type |-> "landscape", fn |-> "f"],
                          [type |-> "portrait", fn |-> "g"]>>
                 /\ Len(OnTarget(t)) = 2
                 /\ called(OnTarget(t)[1]) =
                        <<IF isLandscape(turn.coll)
                          THEN [type |-> "landscape", fn |-> "f"]
                          ELSE [type |-> "portrait", fn |-> "g"]>>
            ELSE listeners[t] = <<>> /\ handlers[t] = <<>>

\* C12 witness: the chain, with orientationchanged(h), ran on both elements
\* and testOrientation called g on each
C12_Witness ==
    /\ turn.op = "test"
    /\ Len(turn.coll) = 2
    /\ ret = turn.coll
    /\ \A t \in Targets :
        /\ Len(handlers[t]) = 3
        /\ Len(listeners[t]) = 1
        /\ called(OnTarget(t)[1]) = <<[type |-> "portrait", fn |-> "g"]>>
        /\ called(OnTarget(t)[2]) =
                <<[type |-> "orientationchanged", fn |-> "h"]>>

\* C14 (as claimed): a native signal that a handler dispatches again from
\* inside the emission, with the orientation unchanged, produces no second
\* emission: one attached detector emits at most one pair per signal.  (Only
\* emissions that announce the orientation isLandscape() reports are
\* considered.)
C14_NoSecondEmission ==
    (/\ IsSignal(turn.op)
     /\ emitted # <<>>
     /\ PayloadOrientation(emitted[1]) = Query(turn.coll[1]))
        => Len(emitted) <= 2

====
